---- MODULE Spec2Model ----
(***************************************************************************)
(* scanparse: a line scanner and a recursive-descent parser for            *)
(*   EXPR -> TERM EXPRDASH          EXPRDASH -> + TERM EXPRDASH | eps       *)
(*   TERM -> FACTOR TERMDASH        TERMDASH -> * FACTOR TERMDASH | eps     *)
(*   FACTOR -> IDENTIFIER | NUMBER | ( EXPR )                               *)
(* A line is a sequence of one-character strings.  Token texts and node    *)
(* labels are strings.  The recursion of the parser is an explicit stack   *)
(* of frames; the top of the stack is its last element.                    *)
(***************************************************************************)
EXTENDS Integers, Sequences, FiniteSets, TLC

\* ---------------------------------------------------------------- bounds
MaxLen == 3
MaxLines == 2

\* ------------------------------------------------------ character classes
Letters == {"a", "b", "c", "x", "y"}
Digits == {"1", "2", "3"}
Whitespace == {" "}

IsWhitespace(ch) == ch \in Whitespace
IsAsciiDigit(ch) == ch \in Digits
IsAlphabetic(ch) == ch \in Letters

\* ---------------------------------------------------------------- inputs
Sigma == {"a", "1", "+", "*", "(", ")", " ", "$"}

RECURSIVE SeqsUpTo(_, _)
SeqsUpTo(S, n) ==
    IF n = 0 THEN {<<>>}
    ELSE LET shorter == SeqsUpTo(S, n - 1)
         IN  shorter \cup {Append(s, e) : s \in shorter, e \in S}

LineAb12 == <<"a", "b", "1", "2", " ", "+", " ", "(", "c", "*", "3", ")">>
LineXPlusY == <<"x", "+", "y">>
LineOpen12 == <<"(", "1", "+", "2">>
LineClose == <<")">>
LineXDollar == <<"x", " ", "$">>
LineNested == <<"(", "(", "a", ")", "*", "b", ")", "+", "1">>
LineSpaces == <<" ", " ">>

ExampleLines ==
    {LineAb12, LineXPlusY, LineOpen12, LineClose, LineXDollar, LineNested,
     LineSpaces, <<>>}

AllLines == SeqsUpTo(Sigma, MaxLen) \cup ExampleLines

Files == {<<l>> : l \in AllLines} \cup SeqsUpTo(ExampleLines, MaxLines)

\* ---------------------------------------------------------------- tokens
IDENTIFIER(text) == [kind |-> "IDENTIFIER", text |-> text]
NUMBER(text) == [kind |-> "NUMBER", text |-> text]
PLUS == [kind |-> "PLUS", text |-> ""]
STAR == [kind |-> "STAR", text |-> ""]
BOPEN == [kind |-> "BOPEN", text |-> ""]
BCLOSE == [kind |-> "BCLOSE", text |-> ""]
ERROR == [kind |-> "ERROR", text |-> ""]
EOF == [kind |-> "EOF", text |-> ""]

\* {:?} of a token
DebugToken(tok) ==
    CASE tok.kind = "IDENTIFIER" -> "IDENTIFIER(\"" \o tok.text \o "\")"
      [] tok.kind = "NUMBER" -> "NUMBER(\"" \o tok.text \o "\")"
      [] tok.kind = "ERROR" -> "ERROR(())"
      [] OTHER -> tok.kind

\* --------------------------------------------------------------- scanner
NoChar == "<none>"

look_up_current_char(input, index) ==
    IF index + 1 <= Len(input) THEN input[index + 1] ELSE NoChar

RECURSIVE skip_whitespace(_, _)
skip_whitespace(input, index) ==
    IF look_up_current_char(input, index) # NoChar
       /\ IsWhitespace(look_up_current_char(input, index))
    THEN skip_whitespace(input, index + 1)
    ELSE index

\* a collect_while that keeps nothing after the first character
collect_while_mut(input, index, s, keep) == [s |-> s, index |-> index]

RECURSIVE collect_while(_, _, _, _)
collect_while(input, index, s, keep) ==
    IF look_up_current_char(input, index) # NoChar
       /\ look_up_current_char(input, index) \in keep
    THEN collect_while(input, index + 1,
                       s \o look_up_current_char(input, index), keep)
    ELSE [s |-> s, index |-> index]

\* the result of one call: some = FALSE is None
get_next_token(input, index) ==
    LET i == skip_whitespace(input, index)
        ch == look_up_current_char(input, i)
    IN  IF ch = NoChar THEN [some |-> FALSE, tok |-> EOF, index |-> i]
        ELSE CASE ch = "+" -> [some |-> TRUE, tok |-> PLUS, index |-> i + 1]
               [] ch = "*" -> [some |-> TRUE, tok |-> STAR, index |-> i + 1]
               [] ch = "(" -> [some |-> TRUE, tok |-> BOPEN, index |-> i + 1]
               [] ch = ")" -> [some |-> TRUE, tok |-> BCLOSE, index |-> i + 1]
               [] IsAsciiDigit(ch) ->
                    LET r == collect_while(input, i + 1, ch, Digits)
                    IN  [some |-> TRUE, tok |-> NUMBER(r.s), index |-> r.index]
               [] IsAlphabetic(ch) ->
                    LET r == collect_while(input, i + 1, ch, Letters)
                    IN  [some |-> TRUE, tok |-> IDENTIFIER(r.s),
                         index |-> r.index]
               [] OTHER -> [some |-> TRUE, tok |-> ERROR, index |-> i + 1]

\* ------------------------------------------------------------ tree nodes
leaf(label) == [label |-> label, children |-> <<>>]
with(label, children) == [label |-> label, children |-> children]

NoNode == leaf("")

\* a label that drops the text of the identifier
IdentifierLabel_mut(name) == "IDENTIFIER"

IdentifierLabel(name) == "IDENTIFIER(" \o name \o ")"
NumberLabel(n) == "NUMBER(" \o n \o ")"

\* --------------------------------------------------------------- printer
RECURSIVE Join(_)
Join(line) ==
    IF line = <<>> THEN ""
    ELSE IF Len(line) = 1 THEN line[1]
    ELSE line[1] \o " " \o Join(Tail(line))

\* ----------------------------------------------------------------- state
VARIABLES
    file,       \* file_content.lines()
    lineIdx,    \* the line the for loop of main is at, from 1
    pc,         \* "loop", "scan", "parse", "print", "bfs", "done", "exit"
    user_input, \* SCANNER.user_input
    sIndex,     \* SCANNER.index
    tokens,     \* the token vector, built by the scanner, owned by the parser
    pIndex,     \* PARSER.index
    stack,      \* the active parse_* calls, innermost last
    tree,       \* the tree parse_expr returned to main
    stdout,     \* the lines printed so far
    stderr,     \* the diagnostic printed, "" if none
    exitCode,   \* the exit status, -1 while running
    bfsQ,       \* bfs_print: q, the (node, level) pairs still to visit
    bfsLevel,   \* bfs_print: level
    bfsLine,    \* bfs_print: line, the labels of the level being collected
    nScanners,  \* per line, how many scanners were constructed for it
    nParsers    \* per line, how many parsers were constructed for it

vars == <<file, lineIdx, pc, user_input, sIndex, tokens, pIndex, stack, tree,
          stdout, stderr, exitCode, bfsQ, bfsLevel, bfsLine, nScanners,
          nParsers>>

bfsVars == <<bfsQ, bfsLevel, bfsLine>>

Init ==
    /\ file \in Files
    /\ lineIdx = 1
    /\ pc = "loop"
    /\ user_input = <<>>
    /\ sIndex = 0
    /\ tokens = <<>>
    /\ pIndex = 0
    /\ stack = <<>>
    /\ tree = NoNode
    /\ stdout = <<>>
    /\ stderr = ""
    /\ exitCode = -1
    /\ bfsQ = <<>>
    /\ bfsLevel = 0
    /\ bfsLine = <<>>
    /\ nScanners = [i \in 1..Len(file) |-> 0]
    /\ nParsers = [i \in 1..Len(file) |-> 0]

\* ------------------------------------------------------------------ main
\* a test that takes only the empty line for blank
TrimIsEmpty_mut(line) == line = <<>>

\* line.trim().is_empty()
TrimIsEmpty(line) == \A i \in 1..Len(line) : IsWhitespace(line[i])

MainFinish ==
    /\ pc = "loop"
    /\ lineIdx > Len(file)
    /\ pc' = "done"
    /\ exitCode' = 0
    /\ UNCHANGED <<file, lineIdx, user_input, sIndex, tokens, pIndex, stack,
                   tree, stdout, stderr, nScanners, nParsers,
                   bfsVars>>

MainBlankLine ==
    /\ pc = "loop"
    /\ lineIdx <= Len(file)
    /\ TrimIsEmpty(file[lineIdx])
    /\ stdout' = Append(stdout, "")
    /\ lineIdx' = lineIdx + 1
    /\ UNCHANGED <<file, pc, user_input, sIndex, tokens, pIndex, stack, tree,
                   stderr, exitCode, nScanners, nParsers,
                   bfsVars>>

MainScanLine ==
    /\ pc = "loop"
    /\ lineIdx <= Len(file)
    /\ ~TrimIsEmpty(file[lineIdx])
    /\ user_input' = file[lineIdx]
    /\ sIndex' = 0
    /\ tokens' = <<>>
    /\ nScanners' = [nScanners EXCEPT ![lineIdx] = @ + 1]
    /\ pc' = "scan"
    /\ UNCHANGED <<file, lineIdx, pIndex, stack, tree, stdout, stderr,
                   exitCode, nParsers,
                   bfsVars>>

\* one iteration of the loop of tokenize_the_line that pushes a token
TokenizePush ==
    /\ pc = "scan"
    /\ LET r == get_next_token(user_input, sIndex)
       IN  /\ r.some
           /\ tokens' = Append(tokens, r.tok)
           /\ sIndex' = r.index
    /\ UNCHANGED <<file, lineIdx, pc, user_input, pIndex, stack, tree, stdout,
                   stderr, exitCode, nScanners, nParsers,
                   bfsVars>>

Frame(fn) == [fn |-> fn, kids |-> <<>>]

\* a tokenize_the_line that forgets the final push
PushEOF_mut(toks) == toks

\* tokens.push(TOKEN::EOF)
PushEOF(toks) == Append(toks, EOF)

\* get_next_token returns None: EOF is pushed, the parser is constructed
\* over the tokens and parse_expr is called
TokenizeEnd ==
    /\ pc = "scan"
    /\ LET r == get_next_token(user_input, sIndex)
       IN  /\ ~r.some
           /\ tokens' = PushEOF(tokens)
           /\ sIndex' = r.index
    /\ pIndex' = 0
    /\ stack' = <<Frame("expr")>>
    /\ nParsers' = [nParsers EXCEPT ![lineIdx] = @ + 1]
    /\ pc' = "parse"
    /\ UNCHANGED <<file, lineIdx, user_input, tree, stdout, stderr, exitCode,
                   nScanners,
                   bfsVars>>

\* ---------------------------------------------------------------- parser
current_token(toks, index) ==
    IF index + 1 <= Len(toks) THEN toks[index + 1] ELSE EOF

\* a move_to_next_token that stays where it is
move_to_next_token_mut(toks, index) == index

move_to_next_token(toks, index) ==
    IF index < Len(toks) THEN index + 1 ELSE index

Top == stack[Len(stack)]

\* the callee's frame goes on top of the caller's, whose children so far
\* are kids
Call(kids, fn) ==
    /\ stack' = Append([stack EXCEPT ![Len(stack)].kids = kids], Frame(fn))
    /\ UNCHANGED <<tree, pc>>

\* the top call returns node: to its caller, or to main from the outermost
\* parse_expr
Return(node) ==
    IF Len(stack) = 1
    THEN /\ stack' = <<>>
         /\ tree' = node
         /\ pc' = "print"
    ELSE /\ stack' = [SubSeq(stack, 1, Len(stack) - 1)
                        EXCEPT ![Len(stack) - 1].kids = Append(@, node)]
         /\ UNCHANGED <<tree, pc>>

MissingParenMsg == "Error: missing closing parenthesis"
\* the wrong diagnostic for an unexpected token
UnexpectedMsg_mut(tok) == MissingParenMsg

UnexpectedMsg(tok) == "Error: Unexpected token in FACTOR: " \o DebugToken(tok)

\* a failure that prints the diagnostic and lets main go on
Fatal_mut(msg) ==
    /\ stderr' = msg
    /\ exitCode' = exitCode
    /\ pc' = "print"
    /\ UNCHANGED <<stack, tree, stdout, pIndex>>

\* eprintln!(msg); process::exit(1)
Fatal(msg) ==
    /\ stderr' = msg
    /\ exitCode' = 1
    /\ pc' = "exit"
    /\ UNCHANGED <<stack, tree, stdout, pIndex>>

\* an epsilon alternative that gives its node no EPSILON child
EpsilonNode_mut(label) == leaf(label)

\* the node of an epsilon alternative
EpsilonNode(label) == with(label, <<leaf("EPSILON")>>)

\* EXPR -> TERM EXPRDASH
ParseExpr ==
    /\ pc = "parse"
    /\ Top.fn = "expr"
    /\ CASE Len(Top.kids) = 0 -> Call(Top.kids, "term")
         [] Len(Top.kids) = 1 -> Call(Top.kids, "exprdash")
         [] OTHER -> Return(with("EXPR", Top.kids))
    /\ UNCHANGED <<file, lineIdx, user_input, sIndex, tokens, pIndex, stdout,
                   stderr, exitCode, nScanners, nParsers,
                   bfsVars>>

\* EXPRDASH -> + TERM EXPRDASH | eps
ParseExprdash ==
    /\ pc = "parse"
    /\ Top.fn = "exprdash"
    /\ CASE Len(Top.kids) = 0 ->
              IF current_token(tokens, pIndex) = PLUS
              THEN /\ pIndex' = move_to_next_token(tokens, pIndex)
                   /\ Call(<<leaf("PLUS")>>, "term")
              ELSE /\ Return(EpsilonNode("EXPRDASH"))
                   /\ UNCHANGED pIndex
         [] Len(Top.kids) = 2 ->
              /\ Call(Top.kids, "exprdash")
              /\ UNCHANGED pIndex
         [] OTHER ->
              /\ Return(with("EXPRDASH", Top.kids))
              /\ UNCHANGED pIndex
    /\ UNCHANGED <<file, lineIdx, user_input, sIndex, tokens, stdout, stderr,
                   exitCode, nScanners, nParsers,
                   bfsVars>>

\* TERM -> FACTOR TERMDASH
ParseTerm ==
    /\ pc = "parse"
    /\ Top.fn = "term"
    /\ CASE Len(Top.kids) = 0 -> Call(Top.kids, "factor")
         [] Len(Top.kids) = 1 -> Call(Top.kids, "termdash")
         [] OTHER -> Return(with("TERM", Top.kids))
    /\ UNCHANGED <<file, lineIdx, user_input, sIndex, tokens, pIndex, stdout,
                   stderr, exitCode, nScanners, nParsers,
                   bfsVars>>

\* TERMDASH -> * FACTOR TERMDASH | eps
ParseTermdash ==
    /\ pc = "parse"
    /\ Top.fn = "termdash"
    /\ CASE Len(Top.kids) = 0 ->
              IF current_token(tokens, pIndex) = STAR
              THEN /\ pIndex' = move_to_next_token(tokens, pIndex)
                   /\ Call(<<leaf("STAR")>>, "factor")
              ELSE /\ Return(EpsilonNode("TERMDASH"))
                   /\ UNCHANGED pIndex
         [] Len(Top.kids) = 2 ->
              /\ Call(Top.kids, "termdash")
              /\ UNCHANGED pIndex
         [] OTHER ->
              /\ Return(with("TERMDASH", Top.kids))
              /\ UNCHANGED pIndex
    /\ UNCHANGED <<file, lineIdx, user_input, sIndex, tokens, stdout, stderr,
                   exitCode, nScanners, nParsers,
                   bfsVars>>

\* the arms of the match of parse_factor a token starts
FactorStarts == {"IDENTIFIER", "NUMBER", "BOPEN"}

\* a check that also takes the end of the line for a closing parenthesis
ClosesParen_mut(tok) == tok \in {BCLOSE, EOF}

\* the test parse_factor makes of the current token tok once the parse_expr
\* inside the parentheses has returned
ClosesParen(tok) == tok = BCLOSE

\* FACTOR -> IDENTIFIER | NUMBER | ( EXPR )
ParseFactor ==
    /\ pc = "parse"
    /\ Top.fn = "factor"
    /\ LET tok == current_token(tokens, pIndex)
       IN  CASE Len(Top.kids) = 0 /\ tok.kind = "IDENTIFIER" ->
                  /\ pIndex' = move_to_next_token(tokens, pIndex)
                  /\ Return(with("FACTOR", <<leaf(IdentifierLabel(tok.text))>>))
                  /\ UNCHANGED <<stdout, stderr, exitCode>>
             [] Len(Top.kids) = 0 /\ tok.kind = "NUMBER" ->
                  /\ pIndex' = move_to_next_token(tokens, pIndex)
                  /\ Return(with("FACTOR", <<leaf(NumberLabel(tok.text))>>))
                  /\ UNCHANGED <<stdout, stderr, exitCode>>
             [] Len(Top.kids) = 0 /\ tok.kind = "BOPEN" ->
                  /\ pIndex' = move_to_next_token(tokens, pIndex)
                  /\ Call(<<leaf("BOPEN")>>, "expr")
                  /\ UNCHANGED <<stdout, stderr, exitCode>>
             [] Len(Top.kids) = 0 /\ tok.kind \notin FactorStarts ->
                  Fatal(UnexpectedMsg(tok))
             [] Len(Top.kids) = 2 /\ ClosesParen(tok) ->
                  /\ pIndex' = move_to_next_token(tokens, pIndex)
                  /\ Return(with("FACTOR", Append(Top.kids, leaf("BCLOSE"))))
                  /\ UNCHANGED <<stdout, stderr, exitCode>>
             [] Len(Top.kids) = 2 /\ ~ClosesParen(tok) ->
                  Fatal(MissingParenMsg)
    /\ UNCHANGED <<file, lineIdx, user_input, sIndex, tokens, nScanners,
                   nParsers,
                   bfsVars>>

\* bfs_print: the queue starts with the root at level 0
BfsStart ==
    /\ pc = "print"
    /\ bfsQ' = <<[node |-> tree, lv |-> 0]>>
    /\ bfsLevel' = 0
    /\ bfsLine' = <<>>
    /\ pc' = "bfs"
    /\ UNCHANGED <<file, lineIdx, user_input, sIndex, tokens, pIndex, stack,
                   tree, stdout, stderr, exitCode, nScanners, nParsers>>

\* one iteration of the loop of bfs_print: a node is popped, the line of the
\* level before it is printed if the node starts a new level, and the
\* children of the node are queued
BfsVisit ==
    /\ pc = "bfs"
    /\ bfsQ # <<>>
    /\ LET node == Head(bfsQ).node
           lv == Head(bfsQ).lv
       IN  /\ IF lv # bfsLevel
              THEN /\ stdout' = Append(stdout, Join(bfsLine))
                   /\ bfsLine' = <<node.label>>
                   /\ bfsLevel' = lv
              ELSE /\ bfsLine' = Append(bfsLine, node.label)
                   /\ UNCHANGED <<stdout, bfsLevel>>
           /\ bfsQ' = Tail(bfsQ) \o
                        [i \in 1..Len(node.children) |->
                           [node |-> node.children[i], lv |-> lv + 1]]
    /\ UNCHANGED <<file, lineIdx, pc, user_input, sIndex, tokens, pIndex,
                   stack, tree, stderr, exitCode, nScanners, nParsers>>

\* the queue is empty: the last level is printed, then the println!() of
\* main, and on to the next line
BfsEnd ==
    /\ pc = "bfs"
    /\ bfsQ = <<>>
    /\ stdout' = (IF bfsLine # <<>> THEN Append(stdout, Join(bfsLine))
                  ELSE stdout) \o <<"">>
    /\ lineIdx' = lineIdx + 1
    /\ pc' = "loop"
    /\ UNCHANGED <<file, user_input, sIndex, tokens, pIndex, stack, tree,
                   stderr, exitCode, bfsVars, nScanners, nParsers>>

Next ==
    \/ MainFinish
    \/ MainBlankLine
    \/ MainScanLine
    \/ TokenizePush
    \/ TokenizeEnd
    \/ ParseExpr
    \/ ParseExprdash
    \/ ParseTerm
    \/ ParseTermdash
    \/ ParseFactor
    \/ BfsStart
    \/ BfsVisit
    \/ BfsEnd

Spec == Init /\ [][Next]_vars

\* the program is one thread that runs until it exits
FairSpec == Spec /\ WF_vars(Next)

TypeOK == pc \in {"loop", "scan", "parse", "print", "bfs", "done", "exit"}

\* ===================================================== grammar, by derivation
\* s is a sequence of tokens; membership in the language of each nonterminal
RECURSIVE IsExpr(_)
RECURSIVE IsTerm(_)
RECURSIVE IsFactor(_)
IsFactor(s) ==
    \/ Len(s) = 1 /\ s[1].kind \in {"IDENTIFIER", "NUMBER"}
    \/ /\ Len(s) >= 3
       /\ s[1] = BOPEN
       /\ s[Len(s)] = BCLOSE
       /\ IsExpr(SubSeq(s, 2, Len(s) - 1))
IsTerm(s) ==
    \/ IsFactor(s)
    \/ \E i \in 2..(Len(s) - 1) :
          /\ s[i] = STAR
          /\ IsFactor(SubSeq(s, 1, i - 1))
          /\ IsTerm(SubSeq(s, i + 1, Len(s)))
IsExpr(s) ==
    \/ IsTerm(s)
    \/ \E i \in 2..(Len(s) - 1) :
          /\ s[i] = PLUS
          /\ IsTerm(SubSeq(s, 1, i - 1))
          /\ IsExpr(SubSeq(s, i + 1, Len(s)))

\* ============================================================== properties
Tokenized == pc \in {"parse", "print", "exit"}
RealTokens == SubSeq(tokens, 1, Len(tokens) - 1)
IsSentence == IsExpr(RealTokens)

RECURSIVE Leaves(_)
RECURSIVE LeavesOfAll(_)
Leaves(n) == IF n.children = <<>> THEN <<n.label>> ELSE LeavesOfAll(n.children)
LeavesOfAll(ns) ==
    IF ns = <<>> THEN <<>> ELSE Leaves(Head(ns)) \o LeavesOfAll(Tail(ns))

NotEpsilon(l) == l # "EPSILON"
IsEpsilon(l) == l = "EPSILON"

TokenLeaf(tok) ==
    CASE tok.kind = "IDENTIFIER" -> "IDENTIFIER(" \o tok.text \o ")"
      [] tok.kind = "NUMBER" -> "NUMBER(" \o tok.text \o ")"
      [] OTHER -> tok.kind

TokenLeaves == [i \in 1..Len(RealTokens) |-> TokenLeaf(RealTokens[i])]

RECURSIVE StrOf(_)
StrOf(chars) == IF chars = <<>> THEN "" ELSE Head(chars) \o StrOf(Tail(chars))

\* ---- C1
C1_TreeOfSentence ==
    (pc = "print" /\ IsSentence)
        => SelectSeq(Leaves(tree), NotEpsilon) = TokenLeaves
C1_SentenceNotFatal == (pc = "exit") => ~IsSentence
\* C1: the parse of a sentence of the grammar ends, never in a fatal failure,
\* and returns a tree whose leaves other than EPSILON, left to right, are the
\* line's tokens before EOF in their order, with their texts.
C1_SentenceParsed ==
    /\ [](C1_TreeOfSentence /\ C1_SentenceNotFatal)
    /\ ((pc = "parse" /\ IsSentence) ~> (pc = "print" /\ IsSentence))
C1_Witness ==
    /\ pc = "print"
    /\ user_input = LineNested
    /\ IsSentence
    /\ SelectSeq(Leaves(tree), NotEpsilon) =
         <<"BOPEN", "BOPEN", "IDENTIFIER(a)", "BCLOSE", "STAR", "IDENTIFIER(b)",
           "BCLOSE", "PLUS", "NUMBER(1)">>

\* ---- C2
HasInvalid == \E i \in 1..Len(tokens) : tokens[i] = ERROR
\* C2: a line with an ERROR token among its tokens never has a tree returned
\* for it: its parse ends in a fatal failure.
C2_InvalidRejected == (Tokenized /\ HasInvalid) => pc # "print"

\* ---- C3
C3_OneEOFLast ==
    Tokenized =>
        /\ Len(tokens) >= 1
        /\ tokens[Len(tokens)] = EOF
        /\ \A i \in 1..(Len(tokens) - 1) : tokens[i] # EOF
C3_ScanStep ==
    (pc = "scan") =>
        /\ pc' \in {"scan", "parse"}
        /\ stderr' = "" /\ exitCode' = -1
        /\ Len(tokens') = Len(tokens) + 1
        /\ SubSeq(tokens', 1, Len(tokens)) = tokens
        /\ (pc' = "scan") =>
              /\ tokens'[Len(tokens')] # EOF
              /\ sIndex' > sIndex
              /\ sIndex' <= Len(user_input)
        /\ (pc' = "parse") => sIndex' = Len(user_input)
\* C3: the tokens of a line end with EOF, the only EOF among them; the
\* scanner appends each token after those scanned before it, consumes the
\* whole line and never fails.
C3_EndsWithOneEOF == []C3_OneEOFLast /\ [][C3_ScanStep]_vars
C3_Witness ==
    /\ pc = "parse"
    /\ Len(tokens) >= 4
    /\ tokens[Len(tokens)] = EOF

\* ---- C4
Ab12Tokens ==
    <<IDENTIFIER("ab"), NUMBER("12"), PLUS, BOPEN, IDENTIFIER("c"), STAR,
      NUMBER("3"), BCLOSE, EOF>>
\* the first position at or after index that holds no whitespace
RECURSIVE FirstNonSpace(_, _)
FirstNonSpace(input, index) ==
    IF index < Len(input) /\ input[index + 1] \in Whitespace
    THEN FirstNonSpace(input, index + 1)
    ELSE index
\* the token tok scanned from position from (0-based) up to position to
\* (exclusive) is the maximal run of its class
MaximalRun(input, from, to, tok, class, kind) ==
    /\ to > from
    /\ \A k \in (from + 1)..to : input[k] \in class
    /\ to < Len(input) => input[to + 1] \notin class
    /\ tok = [kind |-> kind, text |-> StrOf(SubSeq(input, from + 1, to))]
C4_MunchStep ==
    (pc = "scan" /\ pc' = "scan") =>
        LET from == FirstNonSpace(user_input, sIndex)
            ch == user_input[from + 1]
            tok == tokens'[Len(tokens')]
        IN  CASE ch \in Digits ->
                   MaximalRun(user_input, from, sIndex', tok, Digits, "NUMBER")
              [] ch \in Letters ->
                   MaximalRun(user_input, from, sIndex', tok, Letters,
                              "IDENTIFIER")
              [] OTHER ->
                   /\ sIndex' = from + 1
                   /\ tok = (CASE ch = "+" -> PLUS
                               [] ch = "*" -> STAR
                               [] ch = "(" -> BOPEN
                               [] ch = ")" -> BCLOSE
                               [] OTHER -> ERROR)
C4_Example == (Tokenized /\ user_input = LineAb12) => tokens = Ab12Tokens
\* C4: each token is the maximal run of its character class starting at the
\* first non-whitespace position (digits for NUMBER, letters for
\* IDENTIFIER), or one character for + * ( ) and for an unrecognized
\* character; "ab12 + (c*3)" gives IDENTIFIER(ab) NUMBER(12) PLUS BOPEN
\* IDENTIFIER(c) STAR NUMBER(3) BCLOSE EOF.
C4_MaximalMunch == []C4_Example /\ [][C4_MunchStep]_vars
C4_Witness == pc = "parse" /\ user_input = LineAb12 /\ tokens = Ab12Tokens

\* ---- C5
\* the labels of the trees ns, then of their children, level by level
RECURSIVE ChildrenOfAll(_)
ChildrenOfAll(ns) ==
    IF ns = <<>> THEN <<>> ELSE Head(ns).children \o ChildrenOfAll(Tail(ns))
RECURSIVE LevelsFrom(_)
LevelsFrom(ns) ==
    IF ns = <<>> THEN <<>>
    ELSE <<[i \in 1..Len(ns) |-> ns[i].label]>> \o LevelsFrom(ChildrenOfAll(ns))
XPlusYLevels(t) ==
    /\ Len(LevelsFrom(<<t>>)) >= 3
    /\ LevelsFrom(<<t>>)[1] = <<"EXPR">>
    /\ LevelsFrom(<<t>>)[2] = <<"TERM", "EXPRDASH">>
    /\ LevelsFrom(<<t>>)[3] = <<"FACTOR", "TERMDASH", "PLUS", "TERM", "EXPRDASH">>
XPlusYLeaves(t, nEpsilon) ==
    /\ SelectSeq(Leaves(t), NotEpsilon) =
         <<"IDENTIFIER(x)", "PLUS", "IDENTIFIER(y)">>
    /\ Len(SelectSeq(Leaves(t), IsEpsilon)) = nEpsilon
\* C5 as stated: the tree of "x+y" has levels EXPR / TERM EXPRDASH / FACTOR
\* TERMDASH PLUS TERM EXPRDASH and leaves IDENTIFIER(x), IDENTIFIER(y), PLUS
\* and exactly two EPSILON.
C5_TwoEpsilons ==
    (pc = "print" /\ user_input = LineXPlusY)
        => (XPlusYLevels(tree) /\ XPlusYLeaves(tree, 2))
\* C5 amended: the same levels and leaves, with exactly three EPSILON leaves:
\* one under each of the two TERMDASH nodes and one under the last EXPRDASH.
C5_ThreeEpsilons ==
    (pc = "print" /\ user_input = LineXPlusY)
        => (XPlusYLevels(tree) /\ XPlusYLeaves(tree, 3))
C5_Witness ==
    /\ pc = "print"
    /\ user_input = LineXPlusY
    /\ Leaves(tree) = <<"IDENTIFIER(x)", "EPSILON", "PLUS", "IDENTIFIER(y)",
                        "EPSILON", "EPSILON">>

\* ---- C6
\* parse_factor is back from the parse_expr inside its parentheses
AfterInnerExpr == pc = "parse" /\ Top.fn = "factor" /\ Len(Top.kids) = 2
C6_CloseStep ==
    (AfterInnerExpr /\ current_token(tokens, pIndex) # BCLOSE)
        => /\ pc' = "exit"
           /\ stderr' = "Error: missing closing parenthesis"
           /\ exitCode' = 1
C6_Example ==
    (user_input = LineOpen12 /\ pc \in {"print", "exit"})
        => (pc = "exit" /\ stderr = "Error: missing closing parenthesis")
\* C6: once the parse_expr inside the parentheses has returned, a current
\* token other than BCLOSE gives the missing-closing-parenthesis failure;
\* "(1+2" ends in that failure.
C6_MissingParen == []C6_Example /\ [][C6_CloseStep]_vars
C6_Witness ==
    /\ pc = "exit"
    /\ user_input = LineOpen12
    /\ Top.fn = "factor"
    /\ Len(Top.kids) = 2
    /\ stderr = "Error: missing closing parenthesis"

\* ---- C7
NotFactorStart == {"EOF", "PLUS", "STAR", "BCLOSE", "ERROR"}
AtFactorEntry == pc = "parse" /\ Top.fn = "factor" /\ Len(Top.kids) = 0
C7_EntryStep ==
    (AtFactorEntry /\ current_token(tokens, pIndex).kind \in NotFactorStart)
        => /\ pc' = "exit"
           /\ exitCode' = 1
           /\ stderr' = "Error: Unexpected token in FACTOR: " \o
                          DebugToken(current_token(tokens, pIndex))
           /\ pIndex' = pIndex
           /\ tree' = tree
C7_Example ==
    (user_input = LineClose /\ pc \in {"print", "exit"})
        => /\ pc = "exit"
           /\ stderr = "Error: Unexpected token in FACTOR: BCLOSE"
           /\ pIndex = 0
\* C7: parse_factor entered at EOF, PLUS, STAR, BCLOSE or ERROR ends in the
\* unexpected-token failure, returning no tree and leaving the cursor where
\* it was; ")" alone ends in that failure.
C7_UnexpectedToken == []C7_Example /\ [][C7_EntryStep]_vars
C7_Witness ==
    /\ pc = "exit"
    /\ user_input = LineClose
    /\ stderr = "Error: Unexpected token in FACTOR: BCLOSE"

\* ---- C8
C8_FatalStep ==
    (stderr' # stderr)
        => /\ pc' = "exit"
           /\ exitCode' = 1
           /\ stdout' = stdout
           /\ lineIdx' = lineIdx
C8_LineSilent == (pc \in {"scan", "parse"}) => stdout' = stdout
C8_Stopped == (pc = "exit") => vars' = vars
C8_ExitState ==
    /\ (pc = "exit") =>
          /\ exitCode = 1
          /\ stderr # ""
          /\ lineIdx <= Len(file)
          /\ \A j \in (lineIdx + 1)..Len(file) :
                nScanners[j] = 0 /\ nParsers[j] = 0
    /\ (stderr # "") => pc = "exit"
    /\ (exitCode = 0) => (pc = "done" /\ stderr = "" /\ lineIdx = Len(file) + 1)
    /\ (exitCode = -1) <=> (pc \notin {"done", "exit"})
\* C8: a fatal condition ends the run at once with exit status 1: nothing is
\* printed for the line from its scan to the failure, what was printed
\* before stays, no later line gets a scanner or a parser and no step
\* follows; status 0 is only reached past the last line with no failure.
C8_FirstFailureEndsRun ==
    /\ []C8_ExitState
    /\ [][C8_FatalStep /\ C8_LineSilent /\ C8_Stopped]_vars
C8_Witness ==
    /\ pc = "exit"
    /\ exitCode = 1
    /\ Len(file) >= 2
    /\ lineIdx = 1
    /\ nScanners[2] = 0

\* ---- C9
AllWhitespace(line) == \A i \in 1..Len(line) : line[i] \in Whitespace
C9_Counts ==
    \A i \in 1..Len(file) :
        /\ AllWhitespace(file[i]) => (nScanners[i] = 0 /\ nParsers[i] = 0)
        /\ nScanners[i] <= 1 /\ nParsers[i] <= 1
        /\ (i < lineIdx /\ ~AllWhitespace(file[i]))
              => (nScanners[i] = 1 /\ nParsers[i] = 1)
C9_NeverOnlyEOF == Tokenized => tokens # <<EOF>>
C9_LineStep ==
    /\ (pc = "loop" /\ lineIdx <= Len(file) /\ AllWhitespace(file[lineIdx]))
          => /\ stdout' = Append(stdout, "")
             /\ lineIdx' = lineIdx + 1
             /\ pc' = "loop"
    /\ (pc = "loop" /\ lineIdx <= Len(file) /\ ~AllWhitespace(file[lineIdx]))
          => /\ pc' = "scan"
             /\ user_input' = file[lineIdx]
             /\ sIndex' = 0
             /\ nScanners'[lineIdx] = 1
    /\ (pc = "scan" /\ pc' = "parse")
          => (pIndex' = 0 /\ nParsers'[lineIdx] = 1)
\* C9: an empty or all-whitespace line gives one blank output line and gets
\* no scanner and no parser, so no parser runs on EOF alone; every other
\* line the loop gets to has one scanner and one parser constructed for it,
\* each starting at cursor 0.
C9_BlankLines == [](C9_Counts /\ C9_NeverOnlyEOF) /\ [][C9_LineStep]_vars
C9_Witness ==
    /\ pc = "done"
    /\ Len(file) = 2
    /\ file[1] = LineSpaces
    /\ file[2] = LineXPlusY
    /\ stdout[1] = ""
    /\ nScanners = <<0, 1>>
    /\ nParsers = <<0, 1>>

\* ---- C10
SameParse == pc = "parse" /\ pc' \in {"parse", "print", "exit"}
C10_Cursor == (pc = "parse") => (pIndex <= Len(tokens))
C10_Step ==
    SameParse =>
        /\ pIndex' >= pIndex
        /\ (Top.fn = "exprdash" /\ Len(Top.kids) = 0) =>
              IF current_token(tokens, pIndex) = PLUS
              THEN pIndex' >= pIndex + 1
              ELSE pIndex' = pIndex /\ Len(stack') = Len(stack) - 1
        /\ (Top.fn = "termdash" /\ Len(Top.kids) = 0) =>
              IF current_token(tokens, pIndex) = STAR
              THEN pIndex' >= pIndex + 1
              ELSE pIndex' = pIndex /\ Len(stack') = Len(stack) - 1
        /\ (Top.fn = "factor" /\ pc' # "exit") => pIndex' >= pIndex + 1
\* C10: every parse halts, with a tree or in a fatal failure; the cursor
\* never decreases and never exceeds the number of tokens, a + or * step
\* and every FACTOR alternative that does not fail advance it by at least
\* one, and the epsilon alternatives return at once and leave it unchanged.
C10_ParseHalts ==
    /\ []C10_Cursor
    /\ [][C10_Step]_vars
    /\ ((pc = "parse") ~> (pc \in {"print", "exit"}))
C10_Witness ==
    /\ pc = "print"
    /\ user_input = LineNested
    /\ pIndex = 9
    /\ Len(tokens) = 10
====
